---- MODULE Spec2Model ----
(***************************************************************************)
(* The minesweeper board engine of src/games/minesweeper.c: the global     *)
(* game structure, lazy mine generation on the first reveal, adjacency     *)
(* numbers, the recursive cascading reveal, flag bookkeeping, victory and  *)
(* loss, driven by the menu of play_minesweeper and the command loop of    *)
(* play_game_loop.  time(NULL) is the variable clock, which the action     *)
(* Tick advances; of the screens only display_game is kept, for the        *)
(* elapsed time it prints: help and statistics change nothing and are no   *)
(* actions.  Spec follows the engine on small custom boards with the clock *)
(* standing still; SpecMenu follows the menu, the Beginner preset and the  *)
(* clock; SpecSessions follows one session after the other, with refused   *)
(* custom configurations between them.                                     *)
(***************************************************************************)
EXTENDS Integers, Sequences, FiniteSets, TLC

VARIABLES
    game,       \* the global game structure
    pc,         \* "menu": in play_minesweeper; "play": in the loop of
                \* play_game_loop; "final": the loop left on game_over
    moves,      \* commands typed since the board was set up
    sessions,   \* boards set up so far
    last,       \* the last menu choice or command, and its cell
    hit,        \* history: reveal_cell has revealed a mine on this board
    clock,      \* what time(NULL) returns
    shown       \* the elapsed seconds display_game printed last

vars == <<game, pc, moves, sessions, last, hit, clock, shown>>

----------------------------------------------------------------------------
(* Program constants.                                                      *)

MAX_WIDTH == 30
MAX_HEIGHT == 16
MIN_WIDTH == 5
MIN_HEIGHT == 5

CELL_HIDDEN == 0
CELL_REVEALED == 1
CELL_FLAGGED == 2

\* setup_difficulty(DIFFICULTY_BEGINNER), (..._INTERMEDIATE), (..._EXPERT)
Beginner == [width |-> 9, height |-> 9, mine_count |-> 10]
Intermediate == [width |-> 16, height |-> 16, mine_count |-> 40]
Expert == [width |-> 30, height |-> 16, mine_count |-> 99]

(* Bounds of the exploration.                                              *)

\* widest and tallest custom board entered at the menu
MaxWidth == 5
MaxHeight == 5
\* largest mine count entered at the menu
MaxMines == 2
\* commands typed in one session on a board of MaxMines mines; a board
\* with fewer mines is followed for as many commands more
MaxMoves == 2
\* last row and last column of the board that a command names
MaxRow == 1
MaxCol == 2
\* boards set up from the menu
MaxSessions == 1
\* on a board of more cells than the largest custom board of Spec, the
\* cells that the draws of generate_mines are followed to: the first ones
\* of the board, column after column
MaxDraws == 12
\* the last second the clock is followed to
MaxClock == 1
\* boards set up from the menu in SpecSessions
MaxBoards == 2
\* commands typed in a session of SpecSessions that is not the first
MaxLaterMoves == 0
\* custom configurations refused in a row in SpecSessions
MaxRefusals == 1

----------------------------------------------------------------------------
(* The grid arrays mines[][], state[][] and numbers[][].  Only the part    *)
(* that a board of the explored sizes can index is kept: the custom boards *)
(* up to MaxWidth x MaxHeight and the Beginner board.                      *)

Min(a, b) == IF a < b THEN a ELSE b
Max(a, b) == IF a > b THEN a ELSE b

GridHeight == Min(Max(MaxHeight, Beginner.height), MAX_HEIGHT)
GridWidth == Min(Max(MaxWidth, Beginner.width), MAX_WIDTH)

GridRows == 0 .. GridHeight - 1
GridCols == 0 .. GridWidth - 1

\* the cells of the board in play: 0 <= i < height, 0 <= j < width
Board(g) == (0 .. g.height - 1) \X (0 .. g.width - 1)

is_valid_position(g, row, col) ==
    row >= 0 /\ row < g.height /\ col >= 0 /\ col < g.width

\* (dr, dc) in the order of the two nested loops, (0, 0) skipped
Offsets ==
    << <<-1, -1>>, <<-1, 0>>, <<-1, 1>>,
       <<0, -1>>,             <<0, 1>>,
       <<1, -1>>,  <<1, 0>>,  <<1, 1>> >>

\* the count without the diagonal neighbours
count_adjacent_mines_Orthogonal(g, row, col) ==
    Cardinality({k \in {2, 4, 5, 7} :
        LET nr == row + Offsets[k][1]
            nc == col + Offsets[k][2]
        IN  is_valid_position(g, nr, nc) /\ g.mines[nr][nc]})

count_adjacent_mines(g, row, col) ==
    Cardinality({k \in 1 .. Len(Offsets) :
        LET nr == row + Offsets[k][1]
            nc == col + Offsets[k][2]
        IN  is_valid_position(g, nr, nc) /\ g.mines[nr][nc]})

\* calculate_numbers that leaves the numbers as the reset left them
calculate_numbers_None(g) == g

calculate_numbers(g) ==
    [g EXCEPT !.numbers =
        [i \in GridRows |-> [j \in GridCols |->
            IF is_valid_position(g, i, j) /\ ~g.mines[i][j]
            THEN count_adjacent_mines(g, i, j)
            ELSE g.numbers[i][j]]]]

----------------------------------------------------------------------------
(* generate_mines: every draw of (rand() % height, rand() % width) is a    *)
(* free choice of a cell of the board; a rejected draw repeats the loop.   *)

\* the test without the first-click cell
MineRejected_NoStart(m, start_row, start_col, row, col) ==
    m[row][col]

\* the test that lets a cell be drawn twice
MineRejected_Twice(m, start_row, start_col, row, col) ==
    row = start_row /\ col = start_col

\* the test that makes the loop `continue`
MineRejected(m, start_row, start_col, row, col) ==
    (row = start_row /\ col = start_col) \/ m[row][col]

\* the cells that a draw (rand() % height, rand() % width) is followed to
Drawn(g) ==
    IF g.width * g.height <= MaxWidth * MaxHeight
    THEN Board(g)
    ELSE {c \in Board(g) : c[2] * g.height + c[1] < MaxDraws}

RECURSIVE PlaceMines(_, _, _, _, _)
\* the mine arrays the while loop can end with, from those of ms, which it
\* can have reached when mines_placed are placed
PlaceMines(g, start_row, start_col, ms, mines_placed) ==
    IF ~(mines_placed < g.mine_count)
    THEN ms
    ELSE PlaceMines(g, start_row, start_col,
            UNION {{[m EXCEPT ![c[1]][c[2]] = TRUE] :
                        c \in {d \in Drawn(g) :
                            ~MineRejected(m, start_row, start_col,
                                          d[1], d[2])}} :
                   m \in ms},
            mines_placed + 1)

\* the game structures generate_mines can leave
generate_mines(g, start_row, start_col) ==
    {calculate_numbers([g EXCEPT !.mines = m]) :
        m \in PlaceMines(g, start_row, start_col, {g.mines}, 0)}

----------------------------------------------------------------------------
(* Victory, game over, reveal and flag.                                    *)

\* the count compared with all the cells of the board
check_victory_AllCells(g) ==
    g.revealed_count = g.width * g.height

check_victory(g) ==
    LET non_mine_cells == g.width * g.height - g.mine_count
    IN  g.revealed_count = non_mine_cells

\* the final loop without its assignment
RevealAllMines_None(g) == g.state

\* the final loop of game_over_sequence
RevealAllMines(g) ==
    [i \in GridRows |-> [j \in GridCols |->
        IF is_valid_position(g, i, j) /\ g.mines[i][j]
        THEN CELL_REVEALED
        ELSE g.state[i][j]]]

\* the best-time block without the tests of the size of the board
UpdateBestTimes_AnyBoard(g, elapsed) ==
    IF g.best_time_beginner < 0 \/ elapsed < g.best_time_beginner
    THEN [g EXCEPT !.best_time_beginner = elapsed]
    ELSE g

\* the best-time block of game_over_sequence
UpdateBestTimes(g, elapsed) ==
    IF g.width = 9 /\ g.height = 9
    THEN IF g.best_time_beginner < 0 \/ elapsed < g.best_time_beginner
         THEN [g EXCEPT !.best_time_beginner = elapsed]
         ELSE g
    ELSE IF g.width = 16 /\ g.height = 16
    THEN IF g.best_time_intermediate < 0
                \/ elapsed < g.best_time_intermediate
         THEN [g EXCEPT !.best_time_intermediate = elapsed]
         ELSE g
    ELSE IF g.width = 30 /\ g.height = 16
    THEN IF g.best_time_expert < 0 \/ elapsed < g.best_time_expert
         THEN [g EXCEPT !.best_time_expert = elapsed]
         ELSE g
    ELSE g

\* now is what time(NULL) returns
game_over_sequence(g, won, now) ==
    LET g1 == [g EXCEPT !.game_over = TRUE,
                        !.victory = won,
                        !.games_played = @ + 1]
        g2 == IF won
              THEN UpdateBestTimes([g1 EXCEPT !.games_won = @ + 1],
                                   now - g1.start_time)
              ELSE g1
    IN  [g2 EXCEPT !.state = RevealAllMines(g2)]

\* the branch without game_over
HitMine_NoGameOver(g) ==
    [g EXCEPT !.victory = FALSE]

\* the branch of reveal_cell taken when the revealed cell is a mine
HitMine(g) ==
    [g EXCEPT !.game_over = TRUE, !.victory = FALSE]

\* the guard that lets a flagged cell through
RevealRejected_FlagsIgnored(g, row, col) ==
    ~is_valid_position(g, row, col) \/ g.state[row][col] = CELL_REVEALED

\* the guard at the top of reveal_cell
RevealRejected(g, row, col) ==
    ~is_valid_position(g, row, col) \/ g.state[row][col] # CELL_HIDDEN

\* the first-click block that leaves first_click set
FirstClick_KeepFlag(g, rnd, now) ==
    IF g.first_click THEN [rnd EXCEPT !.start_time = now] ELSE g

\* the first-click block that leaves start_time as it was
FirstClick_NoStartTime(g, rnd, now) ==
    IF g.first_click THEN [rnd EXCEPT !.first_click = FALSE] ELSE g

\* the first-click block of reveal_cell; rnd is what generate_mines left
\* and now what time(NULL) returns
FirstClick(g, rnd, now) ==
    IF g.first_click
    THEN [rnd EXCEPT !.start_time = now, !.first_click = FALSE]
    ELSE g

\* the end of reveal_cell without the victory check
Finish_NoCheck(g, now) == g

\* the end of reveal_cell: check_victory, then game_over_sequence(true)
Finish(g, now) ==
    IF check_victory(g) THEN game_over_sequence(g, TRUE, now) ELSE g

(* The recursion of reveal_cell and reveal_adjacent_cells is run on an     *)
(* explicit call stack.  A frame <<row, col, k>> is a call of              *)
(* reveal_adjacent_cells(row, col) made by reveal_cell(row, col), about to *)
(* look at the k-th neighbour; when the eight are done, control is back in *)
(* reveal_cell(row, col), which ends with the victory check.  A machine    *)
(* state is the game structure, the stack, whether a revealed cell was a   *)
(* mine, and what time(NULL) returns during the call.                      *)

\* reveal_cell that counts the cell and leaves its state as it was
reveal_cell_NoMark(s, row, col, rnd) ==
    IF RevealRejected(s.g, row, col)
    THEN s
    ELSE LET g1 == FirstClick(s.g, rnd, s.now)
             g2 == [g1 EXCEPT !.revealed_count = @ + 1]
         IN  IF g2.mines[row][col]
             THEN [s EXCEPT !.g = HitMine(g2), !.hit = TRUE]
             ELSE IF g2.numbers[row][col] = 0
                  THEN [s EXCEPT !.g = g2,
                                 !.stack = Append(@, <<row, col, 1>>)]
                  ELSE [s EXCEPT !.g = Finish(g2, s.now)]

\* reveal_cell that goes on to the neighbours of a numbered cell as well
reveal_cell_ExpandAll(s, row, col, rnd) ==
    IF RevealRejected(s.g, row, col)
    THEN s
    ELSE LET g1 == FirstClick(s.g, rnd, s.now)
             g2 == [g1 EXCEPT !.state[row][col] = CELL_REVEALED,
                              !.revealed_count = @ + 1]
         IN  IF g2.mines[row][col]
             THEN [s EXCEPT !.g = HitMine(g2), !.hit = TRUE]
             ELSE [s EXCEPT !.g = g2,
                            !.stack = Append(@, <<row, col, 1>>)]

\* reveal_cell whose guard stops at Revealed cells only
reveal_cell_ThroughFlags(s, row, col, rnd) ==
    IF ~is_valid_position(s.g, row, col)
            \/ s.g.state[row][col] = CELL_REVEALED
    THEN s
    ELSE LET g1 == FirstClick(s.g, rnd, s.now)
             g2 == [g1 EXCEPT !.state[row][col] = CELL_REVEALED,
                              !.revealed_count = @ + 1]
         IN  IF g2.mines[row][col]
             THEN [s EXCEPT !.g = HitMine(g2), !.hit = TRUE]
             ELSE IF g2.numbers[row][col] = 0
                  THEN [s EXCEPT !.g = g2,
                                 !.stack = Append(@, <<row, col, 1>>)]
                  ELSE [s EXCEPT !.g = Finish(g2, s.now)]

\* reveal_cell that counts before its guard: a refused cell of the board
\* is counted as well
reveal_cell_CountsRefused(s, row, col, rnd) ==
    IF RevealRejected(s.g, row, col)
    THEN IF is_valid_position(s.g, row, col)
         THEN [s EXCEPT !.g.revealed_count = @ + 1]
         ELSE s
    ELSE LET g1 == FirstClick(s.g, rnd, s.now)
             g2 == [g1 EXCEPT !.state[row][col] = CELL_REVEALED,
                              !.revealed_count = @ + 1]
         IN  IF g2.mines[row][col]
             THEN [s EXCEPT !.g = HitMine(g2), !.hit = TRUE]
             ELSE IF g2.numbers[row][col] = 0
                  THEN [s EXCEPT !.g = g2,
                                 !.stack = Append(@, <<row, col, 1>>)]
                  ELSE [s EXCEPT !.g = Finish(g2, s.now)]

\* reveal_cell(row, col) up to the point where it calls or returns
reveal_cell(s, row, col, rnd) ==
    IF RevealRejected(s.g, row, col)
    THEN s
    ELSE LET g1 == FirstClick(s.g, rnd, s.now)
             g2 == [g1 EXCEPT !.state[row][col] = CELL_REVEALED,
                              !.revealed_count = @ + 1]
         IN  IF g2.mines[row][col]
             THEN [s EXCEPT !.g = HitMine(g2), !.hit = TRUE]
             ELSE IF g2.numbers[row][col] = 0
                  THEN [s EXCEPT !.g = g2,
                                 !.stack = Append(@, <<row, col, 1>>)]
                  ELSE [s EXCEPT !.g = Finish(g2, s.now)]

\* the neighbours without those of the row below
HiddenNeighbours_NotBelow(g, row, col, k) ==
    {j \in k .. Len(Offsets) - 3 :
        LET nr == row + Offsets[j][1]
            nc == col + Offsets[j][2]
        IN  is_valid_position(g, nr, nc) /\ g.state[nr][nc] = CELL_HIDDEN}

\* the neighbours with the last one of the loops left out
HiddenNeighbours_SkipLast(g, row, col, k) ==
    {j \in k .. Len(Offsets) - 1 :
        LET nr == row + Offsets[j][1]
            nc == col + Offsets[j][2]
        IN  is_valid_position(g, nr, nc) /\ g.state[nr][nc] = CELL_HIDDEN}

\* the neighbours, from the k-th on, that reveal_adjacent_cells(row, col)
\* would call reveal_cell on as the game structure stands
HiddenNeighbours(g, row, col, k) ==
    {j \in k .. Len(Offsets) :
        LET nr == row + Offsets[j][1]
            nc == col + Offsets[j][2]
        IN  is_valid_position(g, nr, nc) /\ g.state[nr][nc] = CELL_HIDDEN}

\* the loops of reveal_adjacent_cells in the top frame, up to their next
\* call of reveal_cell or to their end: the iterations in between change
\* nothing
reveal_adjacent_cells(s, rnd) ==
    LET n == Len(s.stack)
        row == s.stack[n][1]
        col == s.stack[n][2]
        calls == HiddenNeighbours(s.g, row, col, s.stack[n][3])
    IN  IF calls = {}
        THEN [s EXCEPT !.g = Finish(@, s.now),
                       !.stack = SubSeq(@, 1, n - 1)]
        ELSE LET k == CHOOSE j \in calls : \A i \in calls : j <= i
             IN  reveal_cell([s EXCEPT !.stack[n] = <<row, col, k + 1>>],
                             row + Offsets[k][1], col + Offsets[k][2], rnd)

RECURSIVE Run(_, _, _)
\* at most n iterations, stopping when the outermost call has returned
Run(s, n, rnd) ==
    IF s.stack = <<>>
    THEN s
    ELSE IF n <= 1
         THEN reveal_adjacent_cells(s, rnd)
         ELSE Run(Run(s, n \div 2, rnd), n - (n \div 2), rnd)

\* an iteration reveals a cell or ends a call, and a cell is revealed once
MaxIterations(g) == 2 * g.width * g.height

\* the machine state a call from play_game_loop starts in
Called(g, now) == [g |-> g, stack |-> <<>>, hit |-> FALSE, now |-> now]

\* the machine state when the call reveal_cell(row, col) has returned
RevealCall(g, row, col, rnd, now) ==
    Run(reveal_cell(Called(g, now), row, col, rnd), MaxIterations(g), rnd)

\* the game structure it leaves
RevealCell(g, row, col, rnd, now) == RevealCall(g, row, col, rnd, now).g

\* toggle_flag without the test for a Revealed cell
toggle_flag_FlagsRevealed(g, row, col) ==
    IF ~is_valid_position(g, row, col)
    THEN g
    ELSE IF g.state[row][col] = CELL_FLAGGED
         THEN [g EXCEPT !.state[row][col] = CELL_HIDDEN,
                        !.flags_placed = @ - 1]
         ELSE IF g.flags_placed < g.mine_count
              THEN [g EXCEPT !.state[row][col] = CELL_FLAGGED,
                             !.flags_placed = @ + 1]
              ELSE g

\* toggle_flag with the ceiling off by one
toggle_flag_OffByOne(g, row, col) ==
    IF ~is_valid_position(g, row, col) \/ g.state[row][col] = CELL_REVEALED
    THEN g
    ELSE IF g.state[row][col] = CELL_FLAGGED
         THEN [g EXCEPT !.state[row][col] = CELL_HIDDEN,
                        !.flags_placed = @ - 1]
         ELSE IF g.flags_placed <= g.mine_count
              THEN [g EXCEPT !.state[row][col] = CELL_FLAGGED,
                             !.flags_placed = @ + 1]
              ELSE g

toggle_flag(g, row, col) ==
    IF ~is_valid_position(g, row, col) \/ g.state[row][col] = CELL_REVEALED
    THEN g
    ELSE IF g.state[row][col] = CELL_FLAGGED
         THEN [g EXCEPT !.state[row][col] = CELL_HIDDEN,
                        !.flags_placed = @ - 1]
         ELSE IF g.flags_placed < g.mine_count
              THEN [g EXCEPT !.state[row][col] = CELL_FLAGGED,
                             !.flags_placed = @ + 1]
              ELSE g

----------------------------------------------------------------------------
(* The session status the specification speaks of, read off the flags of   *)
(* the game structure.                                                     *)

Status(g) ==
    IF g.game_over
    THEN IF g.victory THEN "Won" ELSE "Lost"
    ELSE IF g.first_click THEN "NotStarted" ELSE "InProgress"

----------------------------------------------------------------------------
(* The menu and the command loop.                                          *)

\* init_minesweeper: memset to zero, then first_click and the best times
init_minesweeper ==
    [width |-> 0, height |-> 0, mine_count |-> 0,
     revealed_count |-> 0, flag_count |-> 0, flags_placed |-> 0,
     game_over |-> FALSE, victory |-> FALSE,
     start_time |-> 0,
     games_played |-> 0, games_won |-> 0,
     best_time_beginner |-> -1,
     best_time_intermediate |-> -1,
     best_time_expert |-> -1,
     mines |-> [i \in GridRows |-> [j \in GridCols |-> FALSE]],
     state |-> [i \in GridRows |-> [j \in GridCols |-> CELL_HIDDEN]],
     numbers |-> [i \in GridRows |-> [j \in GridCols |-> 0]],
     first_click |-> TRUE]

\* the reset that clears the counters and leaves the grids
ResetBoard_KeepGrids(g) ==
    [g EXCEPT !.revealed_count = 0,
              !.flag_count = g.mine_count,
              !.flags_placed = 0,
              !.game_over = FALSE,
              !.victory = FALSE,
              !.first_click = TRUE]

\* the counters reset and the grids cleared for a new board
ResetBoard(g) ==
    [g EXCEPT !.revealed_count = 0,
              !.flag_count = g.mine_count,
              !.flags_placed = 0,
              !.game_over = FALSE,
              !.victory = FALSE,
              !.first_click = TRUE,
              !.mines = [i \in GridRows |-> [j \in GridCols |->
                  IF is_valid_position(g, i, j) THEN FALSE ELSE @[i][j]]],
              !.state = [i \in GridRows |-> [j \in GridCols |->
                  IF is_valid_position(g, i, j) THEN CELL_HIDDEN ELSE @[i][j]]],
              !.numbers = [i \in GridRows |-> [j \in GridCols |->
                  IF is_valid_position(g, i, j) THEN 0 ELSE @[i][j]]]]

\* setup_difficulty for one of the three presets
setup_difficulty(g, diff) ==
    ResetBoard([g EXCEPT !.width = diff.width,
                         !.height = diff.height,
                         !.mine_count = diff.mine_count])

\* the elapsed seconds that display_game prints when time(NULL) returns now
display_game(g, now) ==
    IF g.first_click THEN 0 ELSE now - g.start_time

\* last: the command, its cell, whether it came before the first successful
\* reveal, whether reveal_cell or toggle_flag went past its guards, the
\* calls of reveal_adjacent_cells left unfinished, and the numbers typed in
\* at menu choice 4
NoOp ==
    [op |-> "none", row |-> 0, col |-> 0, first |-> FALSE, ok |-> FALSE,
     left |-> 0, typed |-> <<>>]

Init ==
    /\ game = init_minesweeper
    /\ pc = "menu"
    /\ moves = 0
    /\ sessions = 0
    /\ last = NoOp
    /\ hit = FALSE
    /\ clock = 0
    /\ shown = 0

\* the height check with the bound of the width
HeightRejected_AsWidth(h) == h < MIN_HEIGHT \/ h > MAX_WIDTH

\* the three checks of menu choice 4
WidthRejected(w) == w < MIN_WIDTH \/ w > MAX_WIDTH
HeightRejected(h) == h < MIN_HEIGHT \/ h > MAX_HEIGHT
MinesRejected(w, h, n) ==
    LET max_mines == (w * h) \div 4
    IN  n < 1 \/ n > max_mines

CustomAccepted(w, h, n) ==
    ~WidthRejected(w) /\ ~HeightRejected(h) /\ ~MinesRejected(w, h, n)

\* the game structure after the scanf calls, which stop at the first value
\* that is refused
ScanCustom(g, w, h, n) ==
    IF WidthRejected(w)
    THEN [g EXCEPT !.width = w]
    ELSE IF HeightRejected(h)
         THEN [g EXCEPT !.width = w, !.height = h]
         ELSE [g EXCEPT !.width = w, !.height = h, !.mine_count = n]

\* menu choice 4 with the numbers w, h and n typed in
Custom(w, h, n) ==
    /\ game' = IF CustomAccepted(w, h, n)
               THEN ResetBoard(ScanCustom(game, w, h, n))
               ELSE ScanCustom(game, w, h, n)
    /\ pc' = IF CustomAccepted(w, h, n) THEN "play" ELSE "menu"
    /\ moves' = IF CustomAccepted(w, h, n) THEN 0 ELSE moves
    /\ sessions' = IF CustomAccepted(w, h, n) THEN sessions + 1 ELSE sessions
    /\ last' = [NoOp EXCEPT !.op = IF CustomAccepted(w, h, n)
                                   THEN "setup" ELSE "rejected",
                            !.typed = <<w, h, n>>]
    /\ hit' = (hit /\ ~CustomAccepted(w, h, n))
    /\ UNCHANGED <<clock, shown>>

\* menu choice 4 with a width, a height and a mine count that pass the checks
SetupCustom ==
    /\ pc = "menu"
    /\ sessions < MaxSessions
    /\ \E w \in MIN_WIDTH .. Min(MaxWidth, MAX_WIDTH),
          h \in MIN_HEIGHT .. Min(MaxHeight, MAX_HEIGHT) :
        \E n \in 1 .. MaxMines :
            /\ n <= (w * h) \div 4
            /\ Custom(w, h, n)

\* the numbers typed in at menu choice 4 in SpecMenu: on either side of the
\* ranges, and the Beginner sizes with one mine
CustomWidths == {MIN_WIDTH - 1, Beginner.width, MAX_WIDTH + 1}
CustomHeights == {MIN_HEIGHT - 1, Beginner.height, MAX_HEIGHT + 1}
CustomMines ==
    {0, 1, (Beginner.width * Beginner.height) \div 4 + 1}

\* menu choice 4 with any of these numbers
MenuCustom ==
    /\ pc = "menu"
    /\ sessions < MaxSessions
    /\ \E w \in CustomWidths, h \in CustomHeights, n \in CustomMines :
        Custom(w, h, n)

\* the presets whose board the kept part of the grids holds
Presets ==
    {diff \in {Beginner, Intermediate, Expert} :
        diff.height <= GridHeight /\ diff.width <= GridWidth}

\* menu choices 1 to 3: setup_difficulty, then play_game_loop
Preset(diff) ==
    /\ game' = setup_difficulty(game, diff)
    /\ pc' = "play"
    /\ moves' = 0
    /\ sessions' = sessions + 1
    /\ last' = [NoOp EXCEPT !.op = "setup"]
    /\ hit' = FALSE
    /\ UNCHANGED <<clock, shown>>

\* menu choices 1 to 3 in SpecMenu
SetupPreset ==
    /\ pc = "menu"
    /\ sessions < MaxSessions
    /\ \E diff \in Presets : Preset(diff)

\* the numbers typed in at menu choice 4 in SpecSessions: a width, a height
\* and a mine count that are refused, and the boards of Spec
SessionTyped ==
    {<<MIN_WIDTH - 1, MIN_HEIGHT, 1>>,
     <<MAX_WIDTH + 1, MIN_HEIGHT, 1>>,
     <<MIN_WIDTH, MAX_HEIGHT + 1, 1>>,
     <<MIN_WIDTH, MIN_HEIGHT, 0>>}
        \cup {<<MIN_WIDTH, MIN_HEIGHT, n>> : n \in 1 .. MaxMines}

\* the custom configurations refused since the last one that was accepted,
\* as far as they are counted
Refusals == IF last.op = "rejected" THEN 1 ELSE 0

\* menu choice 4 in SpecSessions
SessionCustom ==
    /\ pc = "menu"
    /\ sessions < MaxBoards
    /\ \E t \in SessionTyped :
        /\ CustomAccepted(t[1], t[2], t[3]) \/ Refusals < MaxRefusals
        /\ Custom(t[1], t[2], t[3])

\* menu choices 1 to 3 in SpecSessions
SessionPreset ==
    /\ pc = "menu"
    /\ sessions < MaxBoards
    /\ \E diff \in Presets : Preset(diff)

\* a command loop that goes on after game_over
AfterCommand_GoOn(g) == "play"

\* where the command loop stands after a command: it leaves on game_over
AfterCommand(g) == IF g.game_over THEN "final" ELSE "play"

\* the coordinates a command can name: the first rows and columns of the
\* board, and on either side one that no board has
InputRows == {-1} \cup (0 .. MaxRow) \cup {MAX_HEIGHT}
InputCols == {-1} \cup (0 .. MaxCol) \cup {MAX_WIDTH}

\* the commands followed on the board in play: on a board of Spec with
\* fewer than MaxMines mines, as many more than MaxMoves; in the sessions
\* that SpecSessions adds to those of Spec, MaxLaterMoves
MoveLimit(g) ==
    IF sessions > MaxSessions
    THEN MaxLaterMoves
    ELSE IF g.width * g.height <= MaxWidth * MaxHeight
         THEN MaxMoves + Max(0, MaxMines - g.mine_count)
         ELSE MaxMoves

\* parse_input without the upper ends of the two ranges
parse_input_NoUpper(g, row, col) ==
    col >= 0 /\ row + 1 >= 1

\* what parse_input requires of the cell of an R or F command
parse_input(g, row, col) ==
    col >= 0 /\ col < g.width /\ row + 1 >= 1 /\ row + 1 <= g.height

\* one turn of the loop: display_game, then command R with the cell
\* (row, col), which parse_input accepts
RevealAt(row, col) ==
    /\ pc = "play"
    /\ moves < MoveLimit(game)
    /\ parse_input(game, row, col)
    /\ \E rnd \in IF game.first_click /\ ~RevealRejected(game, row, col)
                  THEN generate_mines(game, row, col)
                  ELSE {game} :
        \E s \in {RevealCall(game, row, col, rnd, clock)} :
            /\ game' = s.g
            /\ hit' = (hit \/ s.hit)
            /\ last' = [op |-> "reveal", row |-> row, col |-> col,
                        first |-> game.first_click,
                        ok |-> ~RevealRejected(game, row, col),
                        left |-> Len(s.stack), typed |-> <<>>]
    /\ pc' = AfterCommand(game')
    /\ moves' = moves + 1
    /\ shown' = display_game(game, clock)
    /\ UNCHANGED <<sessions, clock>>

Reveal == \E row \in InputRows, col \in InputCols : RevealAt(row, col)

\* command R with the cell in the middle of the board
RevealCentre == RevealAt(game.height \div 2, game.width \div 2)

\* one turn of the loop: display_game, then command F with a cell that
\* parse_input accepts
Flag ==
    /\ pc = "play"
    /\ moves < MoveLimit(game)
    /\ \E row \in InputRows, col \in InputCols :
        /\ parse_input(game, row, col)
        /\ game' = toggle_flag(game, row, col)
        /\ last' = [op |-> "flag", row |-> row, col |-> col,
                    first |-> game.first_click,
                    ok |-> toggle_flag(game, row, col) # game,
                    left |-> 0, typed |-> <<>>]
    /\ pc' = AfterCommand(game')
    /\ moves' = moves + 1
    /\ shown' = display_game(game, clock)
    /\ UNCHANGED <<sessions, hit, clock>>

\* one turn of the loop with a command that parse_input refuses: a cell
\* outside the board
Invalid ==
    /\ pc = "play"
    /\ moves < MoveLimit(game)
    /\ \E row \in InputRows, col \in InputCols :
        ~parse_input(game, row, col)
    /\ last' = [NoOp EXCEPT !.op = "invalid"]
    /\ moves' = moves + 1
    /\ shown' = display_game(game, clock)
    /\ UNCHANGED <<game, pc, sessions, hit, clock>>

\* one turn of the loop with command Q
Quit ==
    /\ pc = "play"
    /\ pc' = "menu"
    /\ last' = [NoOp EXCEPT !.op = "quit"]
    /\ shown' = display_game(game, clock)
    /\ UNCHANGED <<game, moves, sessions, hit, clock>>

\* the end of play_game_loop when the loop was left on game_over: the
\* final display_game
FinalDisplay ==
    /\ pc = "final"
    /\ pc' = "menu"
    /\ shown' = display_game(game, clock)
    /\ UNCHANGED <<game, moves, sessions, last, hit, clock>>

\* a second passes
Tick ==
    /\ clock < MaxClock
    /\ clock' = clock + 1
    /\ UNCHANGED <<game, pc, moves, sessions, last, hit, shown>>

\* the engine on the custom boards, the clock standing still
Next == SetupCustom \/ Reveal \/ Flag \/ Invalid \/ Quit \/ FinalDisplay

Spec == Init /\ [][Next]_vars

\* the menu, the Beginner board and the clock
NextMenu ==
    \/ MenuCustom
    \/ SetupPreset
    \/ Reveal
    \/ RevealCentre
    \/ Flag
    \/ Invalid
    \/ Quit
    \/ FinalDisplay
    \/ Tick

SpecMenu == Init /\ [][NextMenu]_vars

\* one session after the other: refused configurations between them, and a
\* new board set up over the one that was played
NextSessions ==
    \/ SessionCustom
    \/ SessionPreset
    \/ Reveal
    \/ Flag
    \/ Invalid
    \/ Quit
    \/ FinalDisplay

SpecSessions == Init /\ [][NextSessions]_vars

----------------------------------------------------------------------------
(* Vocabulary of the properties.                                           *)

StateOf(g, c) == g.state[c[1]][c[2]]
IsMine(g, c) == g.mines[c[1]][c[2]]
NumberOf(g, c) == g.numbers[c[1]][c[2]]

NonMineCells(g) == g.width * g.height - g.mine_count

Terminal(g) == Status(g) \in {"Won", "Lost"}

\* the last command was the first successful reveal of the session
FirstReveal ==
    last.op = "reveal" /\ last.ok /\ last.first /\ ~game.first_click

----------------------------------------------------------------------------
\* C1: the cell of the first successful reveal of a session is not among
\* the mines that generate_mines placed for it, and that reveal does not
\* end the session as Lost.
C1_FirstClickSafe ==
    FirstReveal =>
        /\ ~game.mines[last.row][last.col]
        /\ Status(game) # "Lost"

\* a first reveal on a board of several mines, one of them next to the cell
C1_Witness ==
    /\ FirstReveal
    /\ game.mine_count > 1
    /\ game.numbers[last.row][last.col] > 0

\* C2: once a reveal has hit a mine the session is Lost and every mine
\* cell of the board is Revealed.
C2_LossRevealsAllMines ==
    hit =>
        /\ Status(game) = "Lost"
        /\ \A c \in Board(game) :
            IsMine(game, c) => StateOf(game, c) = CELL_REVEALED

\* C3: on a board that has been set up, the session is Won exactly when
\* revealed_count equals width*height - mine_count and no reveal has hit a
\* mine.
C3_WinCriterion ==
    sessions > 0 =>
        (Status(game) = "Won"
            <=> (game.revealed_count = NonMineCells(game) /\ ~hit))

\* a session won on a board of several mines
C3_Witness ==
    /\ Status(game) = "Won"
    /\ game.mine_count > 1
    /\ last.op = "reveal"

\* the order of the statuses
Rank(st) ==
    CASE st = "NotStarted" -> 0
      [] st = "InProgress" -> 1
      [] OTHER -> 2

\* C4: while the same board is in play a command never moves the status
\* backwards, and a status of Won or Lost is never changed.
C4_StatusMonotonic ==
    [][sessions' = sessions =>
        /\ Rank(Status(game)) <= Rank(Status(game'))
        /\ Terminal(game) => Status(game') = Status(game)]_vars

\* a session that was lost after some play, the command loop left
C4_Witness ==
    /\ Status(game) = "Lost"
    /\ pc = "menu"
    /\ game.revealed_count > 1

\* C5: flags_placed stays within 0 .. mine_count, and when it has reached
\* mine_count a toggle_flag on a Hidden cell changes nothing.
C5_FlagCeiling ==
    /\ 0 <= game.flags_placed
    /\ game.flags_placed <= game.mine_count
    /\ game.flags_placed = game.mine_count =>
        \A c \in Board(game) :
            StateOf(game, c) = CELL_HIDDEN =>
                toggle_flag(game, c[1], c[2]) = game

\* all the flags are placed and the last command, a flag on a cell that is
\* still Hidden, was refused
C5_Witness ==
    /\ game.mine_count > 0
    /\ game.flags_placed = game.mine_count
    /\ last.op = "flag"
    /\ ~last.ok
    /\ game.state[last.row][last.col] = CELL_HIDDEN

\* C6: a mine cell is Revealed only when the session is Won or Lost; while
\* it is in progress no mine cell is Revealed.
C6_NoMineRevealedInPlay ==
    \A c \in Board(game) :
        (IsMine(game, c) /\ StateOf(game, c) = CELL_REVEALED)
            => Terminal(game)

\* a session in progress after a cascade
C6_Witness ==
    /\ Status(game) = "InProgress"
    /\ last.op = "reveal"
    /\ game.revealed_count > 1

\* C7: revealed_count stays within 0 .. width*height - mine_count, the
\* reveal of a mine counted.
C7_RevealedCountBounds ==
    /\ 0 <= game.revealed_count
    /\ game.revealed_count <= NonMineCells(game)

\* a mine was hit when every other cell but one was revealed: the count
\* is at its ceiling
C7_Witness ==
    /\ hit
    /\ game.revealed_count = NonMineCells(game)

----------------------------------------------------------------------------
(* Chains of neighbouring cells.                                           *)

Abs(x) == IF x < 0 THEN -x ELSE x

\* two distinct cells that touch, diagonals included
Adjacent(a, b) ==
    a # b /\ Abs(a[1] - b[1]) <= 1 /\ Abs(a[2] - b[2]) <= 1

\* the cells with no mine on them and none around them
ZeroCells(g) ==
    {c \in Board(g) : ~IsMine(g, c) /\ NumberOf(g, c) = 0}

RECURSIVE Chained(_, _)
\* the cells of `through` that a chain of touching cells of `through` joins
\* to a cell of `region`, with `region` itself
Chained(region, through) ==
    LET more == {c \in through \ region :
                    \E d \in region : Adjacent(c, d)}
    IN  IF more = {} THEN region ELSE Chained(region \cup more, through)

\* the last command was a reveal that went through on a cell with no mine
\* on it and none around it
ZeroReveal(g, l) ==
    /\ l.op = "reveal"
    /\ l.ok
    /\ ~g.mines[l.row][l.col]
    /\ g.numbers[l.row][l.col] = 0

\* C8 as stated: after a reveal of a cell with zero adjacent mines, every
\* zero-adjacency cell that a chain of neighbouring zero-adjacency cells
\* joins to it is Revealed.
C8_CascadeClosure ==
    ZeroReveal(game, last) =>
        \A c \in Chained({<<last.row, last.col>>}, ZeroCells(game)) :
            StateOf(game, c) = CELL_REVEALED

\* C8 amended: a reveal of a cell with zero adjacent mines leaves Revealed
\* every zero-adjacency cell that a chain of neighbouring zero-adjacency
\* cells, all Hidden when the call was made, joins to it.
C8_CascadeClosureHidden ==
    [][ZeroReveal(game', last') =>
        \A c \in Chained({<<last'.row, last'.col>>},
                         {z \in ZeroCells(game') :
                             StateOf(game, z) = CELL_HIDDEN}) :
            StateOf(game', c) = CELL_REVEALED]_vars

\* a cascade that went round a flagged cell of its zero region
C8_Witness ==
    /\ ZeroReveal(game, last)
    /\ game.revealed_count > 1
    /\ \E c \in Chained({<<last.row, last.col>>}, ZeroCells(game)) :
        StateOf(game, c) = CELL_FLAGGED

\* C9: reveal_cell on a cell outside the board, or on a cell that is not
\* Hidden, returns with the game structure as it was and no mine revealed;
\* a refused first attempt leaves the board without mines and the session
\* not started; and the cell of a reveal is never Hidden afterwards, so
\* that the same reveal again is refused.
C9_RejectedRevealNoOp ==
    /\ \A row \in -1 .. GridHeight, col \in -1 .. GridWidth :
        (\/ ~(row >= 0 /\ row < game.height /\ col >= 0 /\ col < game.width)
         \/ game.state[row][col] # CELL_HIDDEN)
            => RevealCall(game, row, col, game, clock) = Called(game, clock)
    /\ (last.op = "reveal" /\ ~last.ok /\ last.first) =>
        /\ Status(game) = "NotStarted"
        /\ \A c \in Board(game) : ~IsMine(game, c)
    /\ last.op = "reveal" => game.state[last.row][last.col] # CELL_HIDDEN

\* the first reveal attempt of a session, made on a flagged cell
C9_Witness ==
    /\ last.op = "reveal"
    /\ ~last.ok
    /\ last.first
    /\ game.state[last.row][last.col] = CELL_FLAGGED

MinesOnBoard(g) == Cardinality({c \in Board(g) : IsMine(g, c)})

\* C10: a board that was set up is all Hidden; it has no mine and no number
\* until the first successful reveal, flags or not; after that reveal it
\* has mine_count mines; and while the same board is in play the mines and
\* the numbers change in the first successful reveal only.
C10_TwoPhase ==
    /\ [](last.op = "setup" =>
            \A c \in Board(game) : StateOf(game, c) = CELL_HIDDEN)
    /\ []((sessions > 0 /\ game.first_click) =>
            \A c \in Board(game) :
                ~IsMine(game, c) /\ NumberOf(game, c) = 0)
    /\ []((sessions > 0 /\ ~game.first_click) =>
            MinesOnBoard(game) = game.mine_count)
    /\ [][(/\ sessions' = sessions
           /\ \/ game'.mines # game.mines
              \/ game'.numbers # game.numbers) =>
            (/\ game.first_click
             /\ ~game'.first_click
             /\ last'.op = "reveal"
             /\ last'.ok)]_vars

\* mines placed by the first successful reveal, after a flag was set
C10_Witness ==
    /\ FirstReveal
    /\ game.flags_placed > 0
    /\ MinesOnBoard(game) = game.mine_count

----------------------------------------------------------------------------
\* C11: the reveal that makes the session Won leaves every mine cell of the
\* board Revealed, and revealed_count at width*height - mine_count, which is
\* the number of Revealed cells that are no mines: the marking of the mines
\* is not counted.
C11_WinMarksMines ==
    [][(sessions' = sessions /\ Status(game) # "Won"
            /\ Status(game') = "Won") =>
        /\ last'.op = "reveal"
        /\ \A c \in Board(game') :
            IsMine(game', c) => StateOf(game', c) = CELL_REVEALED
        /\ game'.revealed_count = NonMineCells(game')
        /\ game'.revealed_count =
            Cardinality({c \in Board(game') :
                ~IsMine(game', c) /\ StateOf(game', c) = CELL_REVEALED})]_vars

\* a session won with a flag on a mine, which the marking overwrote
C11_Witness ==
    /\ Status(game) = "Won"
    /\ last.op = "reveal"
    /\ game.flags_placed > 0
    /\ \A c \in Board(game) :
        IsMine(game, c) => StateOf(game, c) = CELL_REVEALED

\* C12: once the session is Won the elapsed time that display_game would
\* print does not change as the clock advances, and the elapsed time on the
\* final board of a first win on a board of the Beginner size is the one
\* stored as the best time.
C12_TimerStopped ==
    /\ [][(Status(game) = "Won" /\ game' = game) =>
            display_game(game', clock') = display_game(game, clock)]_vars
    /\ []((pc = "menu" /\ Status(game) = "Won"
                /\ sessions = 1 /\ game.best_time_beginner >= 0) =>
            shown = game.best_time_beginner)

\* the three ranges as C13 states them
AcceptedAsStated(w, h, n) ==
    /\ 5 <= w /\ w <= 30
    /\ 5 <= h /\ h <= 30
    /\ 1 <= n /\ n <= (w * h) \div 4

\* the three ranges with the height up to 16
AcceptedUpTo16(w, h, n) ==
    /\ 5 <= w /\ w <= 30
    /\ 5 <= h /\ h <= 16
    /\ 1 <= n /\ n <= (w * h) \div 4

\* numbers on either side of the ends of the ranges
EdgeSizes == {4, 5, 16, 17, 30, 31}
EdgeMines(w, h) == {0, 1, (w * h) \div 4, (w * h) \div 4 + 1}

\* the last menu choice was a custom configuration
CustomTyped == last.op \in {"setup", "rejected"} /\ last.typed # <<>>

\* what follows a custom configuration: an accepted one starts a session
\* on a board of the numbers typed in, a refused one leaves the menu
\* standing
CustomOutcome ==
    /\ last.op = "rejected" => pc = "menu"
    /\ last.op = "setup" =>
        /\ pc = "play"
        /\ <<game.width, game.height, game.mine_count>> = last.typed
        /\ Status(game) = "NotStarted"

\* a refused custom configuration sets up no board and starts no session
RejectedStartsNothing ==
    (pc = "menu" /\ last'.op = "rejected") =>
        /\ pc' = "menu"
        /\ sessions' = sessions
        /\ moves' = moves
        /\ game'.state = game.state
        /\ game'.first_click = game.first_click

\* C13 as stated: a custom configuration is accepted exactly when
\* 5 <= width <= 30, 5 <= height <= 30 and 1 <= mine_count <=
\* (width*height)/4; a refused one starts no game.
C13_CustomRanges ==
    /\ [](CustomTyped =>
            /\ \A w \in EdgeSizes, h \in EdgeSizes :
                \A n \in EdgeMines(w, h) :
                    CustomAccepted(w, h, n) <=> AcceptedAsStated(w, h, n)
            /\ last.op = "setup"
                <=> AcceptedAsStated(last.typed[1], last.typed[2],
                                     last.typed[3])
            /\ CustomOutcome)
    /\ [][RejectedStartsNothing]_vars

\* C13 amended: a custom configuration is accepted exactly when
\* 5 <= width <= 30, 5 <= height <= 16 and 1 <= mine_count <=
\* (width*height)/4; a refused one starts no game.
C13_CustomRangesHeight16 ==
    /\ [](CustomTyped =>
            /\ \A w \in EdgeSizes, h \in EdgeSizes :
                \A n \in EdgeMines(w, h) :
                    CustomAccepted(w, h, n) <=> AcceptedUpTo16(w, h, n)
            /\ last.op = "setup"
                <=> AcceptedUpTo16(last.typed[1], last.typed[2],
                                   last.typed[3])
            /\ CustomOutcome)
    /\ [][RejectedStartsNothing]_vars

\* a height of 17 typed in after a width that passed, and refused
C13_Witness ==
    /\ last.op = "rejected"
    /\ ~WidthRejected(last.typed[1])
    /\ last.typed[2] = MAX_HEIGHT + 1
    /\ game.height = MAX_HEIGHT + 1
    /\ pc = "menu"

\* the cell has no mine around it, or touches a cell that has none
TouchesZero(g, c) ==
    c \in ZeroCells(g) \/ \E d \in ZeroCells(g) : Adjacent(c, d)

\* the last command was a reveal that went through on a cell with no mine
\* around it, on a board of 5 x 5 with one mine and no flag
ScenarioB(g, l) ==
    /\ ZeroReveal(g, l)
    /\ g.width = 5 /\ g.height = 5 /\ g.mine_count = 1
    /\ g.flags_placed = 0

\* all the cells that are no mines are Revealed and the session is Won
AllRevealedAndWon(g) ==
    /\ Status(g) = "Won"
    /\ g.revealed_count = 24
    /\ \A c \in Board(g) : ~IsMine(g, c) => StateOf(g, c) = CELL_REVEALED

\* C14 as stated: on a board of 5 x 5 with one mine and no flag, a reveal of
\* a cell with no mine around it reveals the 24 cells that are no mines and
\* the session is Won, wherever the mine is.
C14_ScenarioB ==
    ScenarioB(game, last) => AllRevealedAndWon(game)

\* C14 amended: on such a board such a reveal leaves the 24 cells Revealed
\* and the session Won exactly when every cell that is no mine has no mine
\* around it, touches a cell that has none, or was Revealed before the
\* call; a Hidden cell that touches only the mine and cells touching the
\* mine stays Hidden and the session goes on.
C14_ScenarioBOpenBoard ==
    [][(moves' = moves + 1 /\ ScenarioB(game', last')) =>
        (AllRevealedAndWon(game')
            <=> \A c \in Board(game') :
                    \/ IsMine(game', c)
                    \/ TouchesZero(game', c)
                    \/ StateOf(game, c) = CELL_REVEALED)]_vars

\* the mine in a corner: the first reveal won the session
C14_Witness ==
    /\ ScenarioB(game, last)
    /\ last.first
    /\ AllRevealedAndWon(game)
    /\ game.mines[4][4]

----------------------------------------------------------------------------
\* the width, the height and the mine count of the board
Signature(g) ==
    [width |-> g.width, height |-> g.height, mine_count |-> g.mine_count]

\* the last command was the first successful reveal of a session on the
\* Beginner board, made on the cell (4, 4)
ScenarioA(g, l) ==
    /\ Signature(g) = Beginner
    /\ l.op = "reveal" /\ l.ok /\ l.first
    /\ l.row = 4 /\ l.col = 4

SomeBoards ==
    {Beginner, Intermediate, Expert}
        \cup {[b EXCEPT !.mine_count = 1] :
                b \in {Beginner, Intermediate, Expert}}
        \cup {[width |-> 5, height |-> 5, mine_count |-> 1],
              [width |-> 9, height |-> 16, mine_count |-> 10],
              [width |-> 16, height |-> 30, mine_count |-> 99]}

\* the three best times
BestTimes(g) ==
    <<g.best_time_beginner, g.best_time_intermediate, g.best_time_expert>>

\* the tier that the size of the board selects: 0 for none
TierOfSize(g) ==
    IF g.width = 9 /\ g.height = 9 THEN 1
    ELSE IF g.width = 16 /\ g.height = 16 THEN 2
    ELSE IF g.width = 30 /\ g.height = 16 THEN 3
    ELSE 0

MinesOnGrid(g) == {c \in GridRows \X GridCols : g.mines[c[1]][c[2]]}

\* the cells that a step turns into mines
Placed(g, h) == MinesOnGrid(h) \ MinesOnGrid(g)

\* C17: the first successful reveal of a session, which runs
\* generate_mines(r, c), turns exactly mine_count distinct cells into mines,
\* all of them cells of the board and none of them (r, c); it removes no
\* mine, and the board then holds mine_count mines.
C17_MinePlacement ==
    [][(moves' = moves + 1 /\ last'.op = "reveal" /\ last'.ok
            /\ last'.first) =>
        /\ Cardinality(Placed(game, game')) = game'.mine_count
        /\ Placed(game, game') \subseteq Board(game')
        /\ <<last'.row, last'.col>> \notin Placed(game, game')
        /\ MinesOnGrid(game) \subseteq MinesOnGrid(game')
        /\ MinesOnBoard(game') = game'.mine_count]_vars

\* two mines placed side by side, next to the cell of the first reveal
C17_Witness ==
    /\ FirstReveal
    /\ game.mine_count = 2
    /\ \E a \in MinesOnGrid(game), b \in MinesOnGrid(game) :
        /\ Adjacent(a, b)
        /\ Adjacent(a, <<last.row, last.col>>)

\* the mines among the cells of the board that touch c
MinesAround(g, c) == {d \in Board(g) : Adjacent(c, d) /\ IsMine(g, d)}

\* C18: after the mines are placed, the number of every cell of the board
\* that is no mine is the number of mines among the cells of the board that
\* touch it, and lies in 0 .. 8.
C18_AdjacencyNumbers ==
    FirstReveal =>
        \A c \in Board(game) :
            ~IsMine(game, c) =>
                /\ NumberOf(game, c) = Cardinality(MinesAround(game, c))
                /\ NumberOf(game, c) \in 0 .. 8

\* the corner cell counts two mines, one of them diagonally, and a cell of
\* the edge counts one
C18_Witness ==
    /\ FirstReveal
    /\ ~game.mines[0][0]
    /\ game.numbers[0][0] = 2
    /\ game.mines[1][1]
    /\ game.numbers[0][2] = 1

\* the cells that a step turns Revealed, the mines that game_over_sequence
\* marks left out
NewlyRevealed(g, h, l) ==
    {c \in Board(h) :
        /\ StateOf(g, c) # CELL_REVEALED
        /\ StateOf(h, c) = CELL_REVEALED
        /\ ~IsMine(h, c) \/ c = <<l.row, l.col>>}

\* C19: every reveal command ends with no call of the cascade left
\* unfinished; no Revealed cell changes; revealed_count grows by the number
\* of cells turned Revealed, each of them Hidden before, which is at most
\* width*height.
C19_CascadeSettles ==
    [][(moves' = moves + 1 /\ last'.op = "reveal") =>
        /\ last'.left = 0
        /\ \A c \in Board(game) :
            StateOf(game, c) = CELL_REVEALED
                => StateOf(game', c) = CELL_REVEALED
        /\ \A c \in NewlyRevealed(game, game', last') :
            StateOf(game, c) = CELL_HIDDEN
        /\ game'.revealed_count - game.revealed_count
            = Cardinality(NewlyRevealed(game, game', last'))
        /\ game'.revealed_count - game.revealed_count
            <= game.width * game.height]_vars

\* a cascade over most of the board that ended with the session in progress
C19_Witness ==
    /\ last.op = "reveal"
    /\ last.ok
    /\ last.left = 0
    /\ game.revealed_count > 20
    /\ Status(game) = "InProgress"

\* the game structure without the state of the cell (row, col) and without
\* flags_placed
Framed(g, row, col) ==
    [g EXCEPT !.flags_placed = 0,
              !.state = [i \in GridRows |-> [j \in GridCols |->
                  IF i = row /\ j = col THEN CELL_HIDDEN ELSE @[i][j]]]]

\* C20: a flag command changes nothing but the state of its cell and
\* flags_placed: a Flagged cell becomes Hidden and flags_placed goes down
\* by one; a Hidden cell becomes Flagged and flags_placed goes up by one
\* when flags_placed < mine_count, and is left alone otherwise; a Revealed
\* cell is left alone; and toggle_flag on a cell outside the board changes
\* nothing.
C20_ToggleFlagFrame ==
    /\ [][(moves' = moves + 1 /\ last'.op = "flag") =>
            LET row == last'.row
                col == last'.col
                old == game.state[row][col]
                new == game'.state[row][col]
                d == game'.flags_placed - game.flags_placed
            IN  /\ Framed(game', row, col) = Framed(game, row, col)
                /\ old = CELL_FLAGGED => (new = CELL_HIDDEN /\ d = -1)
                /\ (old = CELL_HIDDEN
                        /\ game.flags_placed < game.mine_count)
                     => (new = CELL_FLAGGED /\ d = 1)
                /\ (old = CELL_HIDDEN
                        /\ ~(game.flags_placed < game.mine_count))
                     => (new = CELL_HIDDEN /\ d = 0)
                /\ old = CELL_REVEALED => (new = CELL_REVEALED /\ d = 0)]_vars
    /\ [](\A row \in InputRows, col \in InputCols :
            ~(row >= 0 /\ row < game.height /\ col >= 0 /\ col < game.width)
                => toggle_flag(game, row, col) = game)

\* a flag taken off again when all the flags were placed
C20_Witness ==
    /\ last.op = "flag"
    /\ last.ok
    /\ game.mine_count > 0
    /\ game.state[last.row][last.col] = CELL_HIDDEN
    /\ game.flags_placed = game.mine_count - 1

----------------------------------------------------------------------------
(* The cascade as section 4.2 of the specification describes it, with a    *)
(* worklist in place of the recursion: a set of Revealed cells with no     *)
(* mine around them whose neighbours are still to be revealed.  A cell     *)
(* taken from the worklist has its Hidden neighbours revealed and counted, *)
(* and those of them that have no mine around them added to the worklist.  *)
(* It is the reference that C21 compares reveal_cell with, and no part of  *)
(* the program.                                                            *)

\* the neighbours of c that are Hidden
HiddenAround(g, c) ==
    {d \in (c[1] - 1 .. c[1] + 1) \X (c[2] - 1 .. c[2] + 1) :
        /\ is_valid_position(g, d[1], d[2])
        /\ Adjacent(c, d)
        /\ StateOf(g, d) = CELL_HIDDEN}

RECURSIVE RevealAll(_, _)
\* the cells of ns revealed and counted, one after the other
RevealAll(g, ns) ==
    IF ns = {}
    THEN g
    ELSE LET d == CHOOSE e \in ns : TRUE
         IN  RevealAll([g EXCEPT !.state[d[1]][d[2]] = CELL_REVEALED,
                                 !.revealed_count = @ + 1],
                       ns \ {d})

\* one cell taken from the worklist
WorklistExpand(w) ==
    LET c == CHOOSE d \in w.work : TRUE
        ns == HiddenAround(w.g, c)
    IN  [g |-> RevealAll(w.g, ns),
         work |-> (w.work \ {c}) \cup {d \in ns : NumberOf(w.g, d) = 0}]

RECURSIVE RunWorklist(_, _)
\* at most n cells taken, stopping when the worklist is empty
RunWorklist(w, n) ==
    IF w.work = {}
    THEN w
    ELSE IF n <= 1
         THEN WorklistExpand(w)
         ELSE RunWorklist(RunWorklist(w, n \div 2), n - (n \div 2))

\* a reveal of the cell (row, col), no mine, on a board whose mines are
\* placed: the guards, the cell revealed and counted, the worklist run until
\* it is empty, then the victory check and the marking of the mines
WorklistReveal(g, row, col) ==
    IF ~is_valid_position(g, row, col) \/ g.state[row][col] # CELL_HIDDEN
    THEN g
    ELSE LET g1 == [g EXCEPT !.state[row][col] = CELL_REVEALED,
                             !.revealed_count = @ + 1]
             w == RunWorklist(
                     [g |-> g1,
                      work |-> IF g1.numbers[row][col] = 0
                               THEN {<<row, col>>} ELSE {}],
                     g.width * g.height)
         IN  IF w.g.revealed_count = NonMineCells(w.g)
             THEN [w.g EXCEPT
                     !.game_over = TRUE,
                     !.victory = TRUE,
                     !.state = [i \in GridRows |-> [j \in GridCols |->
                         IF is_valid_position(g, i, j) /\ g.mines[i][j]
                         THEN CELL_REVEALED ELSE @[i][j]]]]
             ELSE w.g

\* the same Revealed cells, the same count and the same status
SameReveal(a, b) ==
    \E x \in {a}, y \in {b} :
        /\ x.state = y.state
        /\ x.revealed_count = y.revealed_count
        /\ Status(x) = Status(y)

\* the game structure of a step after the first-click block of its reveal
AfterFirstClick(g, h) ==
    [g EXCEPT !.mines = h.mines, !.numbers = h.numbers,
              !.start_time = h.start_time, !.first_click = FALSE]

\* the corners of the board but the first, and the cell in its middle
FarCells(g) ==
    {<<g.height - 1, 0>>, <<0, g.width - 1>>, <<g.height - 1, g.width - 1>>,
     <<g.height \div 2, g.width \div 2>>}

\* C21: a reveal of a cell that is no mine leaves the same states of the
\* cells, the same revealed_count and the same status as the worklist
\* cascade: in every reveal command that goes through, whatever mines it
\* has generated, and, on every board in play whose mines are placed, for
\* a reveal of the cell in the middle of the board and of the three corners
\* that the commands do not name, Hidden or not.
C21_CascadeIsWorklist ==
    /\ [][(moves' = moves + 1 /\ last'.op = "reveal" /\ last'.ok
                /\ ~game'.mines[last'.row][last'.col]) =>
            SameReveal(game',
                       WorklistReveal(AfterFirstClick(game, game'),
                                      last'.row, last'.col))]_vars
    /\ []((pc = "play" /\ ~game.first_click) =>
            \A c \in FarCells(game) :
                ~IsMine(game, c) =>
                    SameReveal(RevealCell(game, c[1], c[2], game, clock),
                               WorklistReveal(game, c[1], c[2])))

\* a cascade that went round a flag and stopped at numbered cells, the
\* session still in progress
C21_Witness ==
    /\ ZeroReveal(game, last)
    /\ Status(game) = "InProgress"
    /\ game.flags_placed > 0
    /\ game.revealed_count > 5
    /\ \E c \in Board(game) :
        StateOf(game, c) = CELL_REVEALED /\ NumberOf(game, c) > 0

----------------------------------------------------------------------------
\* C22: a custom configuration that is refused, typed in when a session has
\* been played, leaves the width, the height, the mine count and the grids
\* of the game structure as they were before it.
C22_RejectedLeavesConfig ==
    [][(sessions > 0 /\ pc = "menu" /\ last'.op = "rejected") =>
        /\ game'.width = game.width
        /\ game'.height = game.height
        /\ game'.mine_count = game.mine_count
        /\ game'.mines = game.mines
        /\ game'.state = game.state
        /\ game'.numbers = game.numbers]_vars

\* the cells of the board that a step finds Flagged and leaves otherwise
Unflagged(g, h) ==
    {c \in Board(g) :
        StateOf(g, c) = CELL_FLAGGED /\ StateOf(h, c) # CELL_FLAGGED}

\* C23 as stated: while the same board is in play, a Flagged cell changes
\* its state only in a flag command on that cell, and a reveal command,
\* its cascade included, leaves every Flagged cell Flagged and flags_placed
\* as it was.
C23_FlagsGuardReveal ==
    [][sessions' = sessions =>
        /\ \A c \in Unflagged(game, game') :
            last'.op = "flag" /\ c = <<last'.row, last'.col>>
        /\ (moves' = moves + 1 /\ last'.op = "reveal") =>
            game'.flags_placed = game.flags_placed]_vars

\* C23 amended: while the same board is in play, a Flagged cell changes its
\* state only in a flag command on that cell, or, when it is a mine, in the
\* reveal that makes the session Won, which marks it Revealed; every other
\* reveal, its cascade included, leaves every Flagged cell Flagged, and
\* every reveal, the winning one included, leaves flags_placed as it was.
C23_FlagsGuardRevealButWin ==
    [][sessions' = sessions =>
        /\ \A c \in Unflagged(game, game') :
            \/ last'.op = "flag" /\ c = <<last'.row, last'.col>>
            \/ /\ last'.op = "reveal"
               /\ Status(game) # "Won"
               /\ Status(game') = "Won"
               /\ IsMine(game', c)
               /\ StateOf(game', c) = CELL_REVEALED
        /\ (moves' = moves + 1 /\ last'.op = "reveal") =>
            game'.flags_placed = game.flags_placed]_vars

\* a session won with a flag on its mine: flags_placed is 1 still and no
\* cell is Flagged any more
C23_Witness ==
    /\ Status(game) = "Won"
    /\ last.op = "reveal"
    /\ game.flags_placed = game.mine_count
    /\ \A c \in Board(game) : StateOf(game, c) # CELL_FLAGGED

\* C24: the reveal that makes the session Won, whatever the size of its
\* cascade, increases games_played by one and games_won by one.
C24_WinCountedOnce ==
    [][(sessions' = sessions /\ Status(game) # "Won"
            /\ Status(game') = "Won") =>
        /\ game'.games_played = game.games_played + 1
        /\ game'.games_won = game.games_won + 1]_vars

\* the cells of the board that are Flagged
FlaggedCells(g) == {c \in Board(g) : StateOf(g, c) = CELL_FLAGGED}

\* C25: on a board that has been set up, flags_placed is the number of
\* Flagged cells, also when the session is Won or Lost, and the value shown
\* as Remaining, flag_count - flags_placed, is mine_count less that number.
C25_FlagsPlacedCounts ==
    sessions > 0 =>
        /\ game.flags_placed = Cardinality(FlaggedCells(game))
        /\ game.flag_count - game.flags_placed
            = game.mine_count - Cardinality(FlaggedCells(game))

\* C26: in a reveal command the only mine that reveal_cell can reveal is
\* the cell of the command: a reveal has hit a mine exactly when its cell
\* is one; unless the session is Won, whose mines are then marked, no other
\* mine is turned Revealed; the cells counted in revealed_count are no
\* mines but for that cell; and the session becomes Lost only in a reveal
\* that went through on a mine, which reveals that cell and no other.
C26_CascadeRevealsNoMine ==
    [][(moves' = moves + 1 /\ last'.op = "reveal") =>
        LET t == <<last'.row, last'.col>>
            direct == last'.ok /\ IsMine(game', t)
        IN  /\ hit' = (hit \/ direct)
            /\ Status(game') # "Won" =>
                \A c \in Board(game') :
                    (/\ StateOf(game, c) # CELL_REVEALED
                     /\ StateOf(game', c) = CELL_REVEALED
                     /\ IsMine(game', c)) => (c = t /\ direct)
            /\ game'.revealed_count - game.revealed_count
                = Cardinality({c \in NewlyRevealed(game, game', last') :
                                  ~IsMine(game', c)})
                    + (IF direct THEN 1 ELSE 0)
            /\ (Status(game') = "Lost") <=> direct
            /\ direct =>
                {c \in Board(game') : StateOf(game', c) # StateOf(game, c)}
                    = {t}]_vars

\* a mine revealed by a command after a cascade that went past the mines
C26_Witness ==
    /\ hit
    /\ Status(game) = "Lost"
    /\ last.op = "reveal"
    /\ game.mines[last.row][last.col]
    /\ game.mine_count > 1
    /\ game.revealed_count > 5

\* C27: the reveal that makes the session Lost increases games_played by
\* one and leaves games_won as it was; games_won never exceeds
\* games_played; and after the first session games_played - games_won is 1
\* when it was lost and 0 otherwise.
C27_LossCounted ==
    /\ [][(sessions' = sessions /\ Status(game) # "Lost"
                /\ Status(game') = "Lost") =>
            /\ game'.games_played = game.games_played + 1
            /\ game'.games_won = game.games_won]_vars
    /\ [](game.games_won <= game.games_played)
    /\ [](sessions = 1 =>
            game.games_played - game.games_won
                = IF Status(game) = "Lost" THEN 1 ELSE 0)

\* the cells of the board that are Revealed
RevealedCells(g) == {c \in Board(g) : StateOf(g, c) = CELL_REVEALED}

\* C28: while the session is in progress, the mines placed and the game not
\* over, revealed_count is the number of Revealed cells of the board, and
\* no Revealed cell is a mine.
C28_RevealedCountInPlay ==
    (sessions > 0 /\ Status(game) = "InProgress") =>
        /\ game.revealed_count = Cardinality(RevealedCells(game))
        /\ \A c \in RevealedCells(game) : ~IsMine(game, c)

\* a board in progress after a cascade, with a flag set, on which the last
\* reveal was refused
C28_Witness ==
    /\ Status(game) = "InProgress"
    /\ last.op = "reveal"
    /\ ~last.ok
    /\ game.flags_placed > 0
    /\ game.revealed_count > 5

----------------------------------------------------------------------------
\* the game won and the best times: what the statistics screen prints
Statistics(g) ==
    <<g.games_played, g.games_won, g.best_time_beginner,
      g.best_time_intermediate, g.best_time_expert>>

\* the game structure as a session reads it: without the cells outside the
\* board, and without start_time, which reveal_cell sets before display_game
\* reads it
SessionView(g) ==
    [g EXCEPT
        !.start_time = 0,
        !.mines = [i \in GridRows |-> [j \in GridCols |->
            is_valid_position(g, i, j) /\ @[i][j]]],
        !.state = [i \in GridRows |-> [j \in GridCols |->
            IF is_valid_position(g, i, j) THEN @[i][j] ELSE CELL_HIDDEN]],
        !.numbers = [i \in GridRows |-> [j \in GridCols |->
            IF is_valid_position(g, i, j) THEN @[i][j] ELSE 0]]]

\* the structure that init_minesweeper leaves, with the width, the height,
\* the mine count and the statistics of g
FreshBoard(g) ==
    [init_minesweeper EXCEPT
        !.width = g.width,
        !.height = g.height,
        !.mine_count = g.mine_count,
        !.flag_count = g.mine_count,
        !.games_played = g.games_played,
        !.games_won = g.games_won,
        !.best_time_beginner = g.best_time_beginner,
        !.best_time_intermediate = g.best_time_intermediate,
        !.best_time_expert = g.best_time_expert]

\* C29: when a board has been set up, by a preset or by an accepted custom
\* configuration, after whatever session, every cell of the new board is
\* Hidden, no mine and of number 0; revealed_count and flags_placed are 0,
\* the game is not over and the mines are not placed; but for the cells
\* outside the board and start_time, which no session reads before writing
\* them, the structure is the one of a first session with the same
\* statistics; and the setup leaves the statistics as they were.
C29_SetupResets ==
    /\ [](last.op = "setup" =>
            /\ \A c \in Board(game) :
                /\ StateOf(game, c) = CELL_HIDDEN
                /\ ~IsMine(game, c)
                /\ NumberOf(game, c) = 0
            /\ game.revealed_count = 0
            /\ game.flags_placed = 0
            /\ ~game.game_over
            /\ game.first_click
            /\ Status(game) = "NotStarted"
            /\ SessionView(game) = SessionView(FreshBoard(game)))
    /\ [][sessions' = sessions + 1 =>
            Statistics(game') = Statistics(game)]_vars

\* a board of 5 x 5 set up after a session won on the Beginner board, of
\* which mines and Revealed cells are left outside the new board
C29_Witness ==
    /\ last.op = "setup"
    /\ sessions = 2
    /\ game.width = 5 /\ game.height = 5
    /\ game.games_won > 0
    /\ \E c \in (GridRows \X GridCols) \ Board(game) : IsMine(game, c)
    /\ \E c \in (GridRows \X GridCols) \ Board(game) :
        StateOf(game, c) = CELL_REVEALED /\ ~IsMine(game, c)

----------------------------------------------------------------------------
\* the indexes of the arrays mines, state and numbers
Arrays == (0 .. MAX_HEIGHT - 1) \X (0 .. MAX_WIDTH - 1)

\* the cells (nr, nc) that the loops of count_adjacent_mines(row, col) and
\* of reveal_adjacent_cells(row, col) index: those that is_valid_position
\* lets through
NeighbourIndexes(g, row, col) ==
    {d \in {<<row + Offsets[k][1], col + Offsets[k][2]>> :
                k \in 1 .. Len(Offsets)} :
        is_valid_position(g, d[1], d[2])}

\* the cell that reveal_cell(row, col) and toggle_flag(row, col) index
\* behind their guard
GuardedIndex(g, row, col) ==
    IF is_valid_position(g, row, col) THEN {<<row, col>>} ELSE {}

\* the cells of the grids that a step writes something new to
Written(g, h) ==
    {c \in GridRows \X GridCols :
        \/ IsMine(g, c) # IsMine(h, c)
        \/ StateOf(g, c) # StateOf(h, c)
        \/ NumberOf(g, c) # NumberOf(h, c)}

\* C30: in play_game_loop the board has 0 < height <= 16 and
\* 0 < width <= 30; the cell of every R or F command that reaches
\* reveal_cell or toggle_flag is a cell of the board; the draws of
\* generate_mines, the neighbours that is_valid_position lets through and
\* the cells that reveal_cell and toggle_flag index behind their guard are
\* cells of the board, whatever coordinates are asked for; and no step
\* writes to a cell of the grids outside the board.
C30_IndexesInBoard ==
    /\ [](pc # "menu" =>
            /\ 0 < game.height /\ game.height <= 16
            /\ 0 < game.width /\ game.width <= 30
            /\ Board(game) \subseteq Arrays)
    /\ [](last.op \in {"reveal", "flag"} =>
            /\ 0 <= last.row /\ last.row < game.height
            /\ 0 <= last.col /\ last.col < game.width)
    /\ [](pc # "menu" =>
            /\ Drawn(game) \subseteq Board(game)
            /\ \A row \in -1 .. game.height, col \in -1 .. game.width :
                /\ NeighbourIndexes(game, row, col) \subseteq Board(game)
                /\ GuardedIndex(game, row, col) \subseteq Board(game))
    /\ [][Written(game, game') \subseteq Board(game')]_vars

\* a command on a cell outside the board was refused, on a board smaller
\* than the grids where a cascade has run from the corner
C30_Witness ==
    /\ last.op = "invalid"
    /\ pc = "play"
    /\ game.width < GridWidth
    /\ game.state[0][0] = CELL_REVEALED
    /\ game.numbers[0][0] = 0
    /\ game.revealed_count > 5

====
